---- MODULE Spec2Model ----
(***************************************************************************)
(* A model of the RipeStore catalog page: the per-session fetch cache      *)
(* (repo-loader / alt-source-kit fetchRepo), the merge of normalized apps  *)
(* by bundle identifier (app.js mergeByBundle), the search index wrapper   *)
(* (search.js) and the catalog controller (app.js loadAll,                 *)
(* filterAndPrepare, appendBatch and the three event listeners).           *)
(*                                                                         *)
(* JavaScript strings that the code inspects character by character        *)
(* (bundle identifiers, names, version strings, download URLs) are         *)
(* sequences of one-character strings; strings the code only tests for     *)
(* emptiness or copies (icon, dev, desc, source) are TLA+ strings.         *)
(***************************************************************************)
EXTENDS Integers, Sequences, FiniteSets, TLC

(***************************************************************************)
(* Bounds of the model.                                                    *)
(***************************************************************************)
\* number of configured sources read by getSources
NumSources == 2
\* apps in one source's catalog document
AppsPerSource == 12
\* pending debounce timers the model lets the input listener accumulate
MaxTimers == 1
\* longest app list handed to mergeByBundle in the merge specification
MaxApps == 3
\* longest version list of one app in the merge specification
MaxVersions == 2
\* fetchRepo calls of the fetch specification
MaxCalls == 3
\* longest apps array, and longest versions array, of a document of the
\* document specification
MaxDocApps == 2
MaxDocVersions == 2
\* longest candidate list handed to searchApps in the search specification
MaxDocs == 3
\* longest version string of the version specification, the examples aside
MaxVersionLen == 3
\* longest merged set handed to filterAndPrepare and sortApps in the filter
\* specification
MaxItems == 3

(***************************************************************************)
(* Strings.                                                                *)
(***************************************************************************)
\* the characters the model's strings are made of, in code-unit order
Alphabet == <<" ", "+", "-", ".", "/", "0", "1", "2", "3", "4", "5", "6", "7", "8", "9",
              ":", "A", "Z", "a", "c", "d", "f", "g", "h", "j", "k", "m", "n", "p", "q",
              "r", "s", "t", "u", "v", "w", "y", "z", "|">>

CharCodes == [c \in {Alphabet[i] : i \in 1..Len(Alphabet)} |->
                CHOOSE i \in 1..Len(Alphabet) : Alphabet[i] = c]

CharCode(c) == CharCodes[c]

Digits == {"0", "1", "2", "3", "4", "5", "6", "7", "8", "9"}

DigitVal(c) == CharCode(c) - CharCode("0")

\* a field that is absent from the object (JavaScript undefined)
Undefined == <<"undefined">>

\* x || '' for a string-or-undefined x
OrEmpty(x) == IF x = Undefined THEN <<>> ELSE x

IsSpace(c) == c = " "

RECURSIVE TrimStart(_)
TrimStart(s) == IF s # <<>> /\ IsSpace(Head(s)) THEN TrimStart(Tail(s)) ELSE s

RECURSIVE TrimEnd(_)
TrimEnd(s) == IF s # <<>> /\ IsSpace(s[Len(s)]) THEN TrimEnd(SubSeq(s, 1, Len(s) - 1)) ELSE s

\* String.prototype.trim
Trim(s) == TrimEnd(TrimStart(s))

\* a < b on two strings: lexicographic by code unit
RECURSIVE StrLess(_, _)
StrLess(a, b) ==
  IF b = <<>> THEN FALSE
  ELSE IF a = <<>> THEN TRUE
  ELSE IF CharCode(Head(a)) < CharCode(Head(b)) THEN TRUE
  ELSE IF CharCode(Head(a)) > CharCode(Head(b)) THEN FALSE
  ELSE StrLess(Tail(a), Tail(b))

\* String.prototype.toLowerCase
LowerChar(c) == IF c = "A" THEN "a" ELSE IF c = "Z" THEN "z" ELSE c

ToLower(s) == [i \in 1..Len(s) |-> LowerChar(s[i])]

\* String.prototype.startsWith and includes
StartsWith(s, p) == Len(p) <= Len(s) /\ SubSeq(s, 1, Len(p)) = p

Includes(s, p) == \E i \in 0..(Len(s) - Len(p)) : SubSeq(s, i + 1, i + Len(p)) = p

\* a.localeCompare(b), on strings of lower-case letters and digits
localeCompare(a, b) == IF a = b THEN 0 ELSE IF StrLess(a, b) THEN -1 ELSE 1

Sign(n) == IF n < 0 THEN -1 ELSE IF n > 0 THEN 1 ELSE 0

Min(a, b) == IF a <= b THEN a ELSE b

(***************************************************************************)
(* utils.js: semverCompare.                                                *)
(***************************************************************************)
\* s.split(/[.+\-]/): the segments between the separators, empty ones kept
RECURSIVE SplitFrom(_, _)
SplitFrom(s, cur) ==
  IF s = <<>> THEN <<cur>>
  ELSE IF Head(s) \in {".", "+", "-"} THEN <<cur>> \o SplitFrom(Tail(s), <<>>)
  ELSE SplitFrom(Tail(s), Append(cur, Head(s)))

Split(s) == SplitFrom(s, <<>>)

RECURSIVE DigitsValue(_, _)
DigitsValue(s, acc) ==
  IF s = <<>> THEN acc ELSE DigitsValue(Tail(s), 10 * acc + DigitVal(Head(s)))

\* isNaN(+x): over the alphabet, +x is a number exactly when x, with the white
\* space around it dropped, is empty (0) or made of decimal digits
IsNumeric(x) == \A i \in 1..Len(Trim(x)) : Trim(x)[i] \in Digits

\* x => x: no segment is coerced to a number
CoerceText(x) == [num |-> FALSE, n |-> 0, t |-> x]

\* x => isNaN(+x) ? x : +x
Coerce(x) ==
  IF IsNumeric(x) THEN [num |-> TRUE, n |-> DigitsValue(Trim(x), 0), t |-> <<>>]
  ELSE [num |-> FALSE, n |-> 0, t |-> x]

\* seg = s => String(s || "").split(/[.+\-]/).map(...)
seg(s) == LET parts == Split(OrEmpty(s)) IN [i \in 1..Len(parts) |-> Coerce(parts[i])]

\* the loop with return 1 for every two segments of different types
RECURSIVE SemverFromNumberWins(_, _, _)
SemverFromNumberWins(A, B, i) ==
  IF i > Len(A) /\ i > Len(B) THEN 0
  ELSE IF i > Len(A) THEN -1
  ELSE IF i > Len(B) THEN 1
  ELSE IF A[i].num = B[i].num
       THEN IF A[i].num
            THEN IF A[i].n < B[i].n THEN -1
                 ELSE IF A[i].n > B[i].n THEN 1
                 ELSE SemverFromNumberWins(A, B, i + 1)
            ELSE IF StrLess(A[i].t, B[i].t) THEN -1
                 ELSE IF StrLess(B[i].t, A[i].t) THEN 1
                 ELSE SemverFromNumberWins(A, B, i + 1)
       ELSE 1

RECURSIVE SemverFrom(_, _, _)
SemverFrom(A, B, i) ==
  IF i > Len(A) /\ i > Len(B) THEN 0
  ELSE IF i > Len(A) THEN -1
  ELSE IF i > Len(B) THEN 1
  ELSE IF A[i].num = B[i].num
       THEN IF A[i].num
            THEN IF A[i].n < B[i].n THEN -1
                 ELSE IF A[i].n > B[i].n THEN 1
                 ELSE SemverFrom(A, B, i + 1)
            ELSE IF StrLess(A[i].t, B[i].t) THEN -1
                 ELSE IF StrLess(B[i].t, A[i].t) THEN 1
                 ELSE SemverFrom(A, B, i + 1)
       ELSE IF A[i].num THEN 1 ELSE -1

semverCompare(a, b) == SemverFrom(seg(a), seg(b), 1)

(***************************************************************************)
(* Dates.  A date string is [kind, t]: "iso" is a calendar string that     *)
(* Date.parse accepts, "compact" the 14-digit YYYYMMDDHHmmss form, "junk"  *)
(* a non-empty string that is no date, "empty" the empty string and        *)
(* "undefined" an absent field; t is the instant the string denotes.       *)
(***************************************************************************)
Null == -1

DateEmpty == [kind |-> "empty", t |-> 0]
DateUndefined == [kind |-> "undefined", t |-> 0]
DateJunk == [kind |-> "junk", t |-> 0]
DateIso(t) == [kind |-> "iso", t |-> t]
DateCompact(t) == [kind |-> "compact", t |-> t]

\* utils.js parseDateString: the time value, or Null
parseDateString(s) ==
  IF s.kind \in {"undefined", "empty"} THEN Null
  ELSE IF s.kind = "compact" THEN s.t
  ELSE IF s.kind = "iso" THEN s.t
  ELSE Null

\* x.date ? new Date(x.date) : null is a Date object (truthy, also when it is
\* an Invalid Date) for every non-empty string
HasDateObject(d) == d.kind \notin {"undefined", "empty"}

\* the time value of new Date(s); an Invalid Date (NaN) is Null.  The 14-digit
\* form is no format of Date.parse.
NewDateTime(s) == IF s.kind = "iso" THEN s.t ELSE Null

(***************************************************************************)
(* Array.prototype.sort.  The comparator's result is used by its sign, and *)
(* NaN counts as +0.  With a consistent comparator the result is the       *)
(* stable sort; otherwise the order is implementation-defined.             *)
(***************************************************************************)
\* the signs of the comparator's results on the elements of s
CmpSigns(s, Cmp(_, _)) == [i \in 1..Len(s) |-> [j \in 1..Len(s) |-> Sign(Cmp(s[i], s[j]))]]

ConsistentSigns(c) ==
  \A i, j, k \in DOMAIN c :
    /\ c[i][i] = 0
    /\ c[i][j] = -c[j][i]
    /\ (c[i][j] = 0 /\ c[j][k] = 0) => c[i][k] = 0
    /\ (c[i][j] < 0 /\ c[j][k] < 0) => c[i][k] < 0

Consistent(s, Cmp(_, _)) == ConsistentSigns(CmpSigns(s, Cmp))

\* the index in the sorted array of the element at index k
SortRank(c, k) ==
  1 + Cardinality({j \in DOMAIN c : c[j][k] < 0 \/ (c[j][k] = 0 /\ j < k)})

StableSort(s, Cmp(_, _)) ==
  LET c == CmpSigns(s, Cmp)
      rank == [k \in 1..Len(s) |-> SortRank(c, k)]
  IN [p \in 1..Len(s) |-> s[CHOOSE k \in 1..Len(s) : rank[k] = p]]

Perms(s) ==
  { [i \in 1..Len(s) |-> s[f[i]]] :
      f \in {g \in [1..Len(s) -> 1..Len(s)] : \A a, b \in 1..Len(s) : g[a] = g[b] => a = b} }

SortOutcomes(s, Cmp(_, _)) ==
  IF Consistent(s, Cmp) THEN {StableSort(s, Cmp)} ELSE Perms(s)

(***************************************************************************)
(* app.js: mergeByBundle.  An app is a record [bundle, name, icon, dev,    *)
(* desc, source, versions]; a version is [version, date, url].  The Map is *)
(* the sequence of its entries in insertion order; an entry under a fresh  *)
(* Symbol, which no later lookup can name, has the key <<>>.               *)
(***************************************************************************)
\* `${v.version}|${v.url}`
VersionId(v) == v.version \o <<"|">> \o v.url

\* the loop over a.versions of one later app of a group: versions whose id has
\* not been seen are pushed
RECURSIVE PushUnseen(_, _)
PushUnseen(accVersions, vs) ==
  IF vs = <<>> THEN accVersions
  ELSE IF VersionId(Head(vs)) \in {VersionId(accVersions[i]) : i \in 1..Len(accVersions)}
       THEN PushUnseen(accVersions, Tail(vs))
       ELSE PushUnseen(Append(accVersions, Head(vs)), Tail(vs))

\* acc.f = a.f || acc.f: a later non-empty value overwrites the field
LastNonEmptyChars(x, y) == IF y # <<>> THEN y ELSE x

\* acc.f = acc.f || a.f, on a character string and on an atomic string
FirstNonEmptyChars(x, y) == IF x # <<>> THEN x ELSE y
FirstNonEmpty(x, y) == IF x # "" THEN x ELSE y

\* the else branch: the app a folded into the group's accumulator
MergeInto(acc, a) ==
  [acc EXCEPT !.name = FirstNonEmptyChars(acc.name, a.name),
              !.icon = FirstNonEmpty(acc.icon, a.icon),
              !.dev = FirstNonEmpty(acc.dev, a.dev),
              !.desc = FirstNonEmpty(acc.desc, a.desc),
              !.versions = PushUnseen(acc.versions, a.versions)]

\* (a.bundle || ''): the key taken without trim()
BundleKeyUntrimmed(a) == OrEmpty(a.bundle)

\* (a.bundle || '').trim()
BundleKey(a) == Trim(OrEmpty(a.bundle))

MapHas(map, b) == \E i \in 1..Len(map) : map[i].key = b

MapIndex(map, b) == CHOOSE i \in 1..Len(map) : map[i].key = b

\* one iteration of the loop over apps
MergeStep(map, a) ==
  IF BundleKey(a) = <<>> THEN Append(map, [key |-> <<>>, val |-> a])
  ELSE IF ~MapHas(map, BundleKey(a)) THEN Append(map, [key |-> BundleKey(a), val |-> a])
  ELSE [map EXCEPT ![MapIndex(map, BundleKey(a))].val = MergeInto(@, a)]

RECURSIVE MergeMap(_, _)
MergeMap(map, apps) ==
  IF apps = <<>> THEN map ELSE MergeMap(MergeStep(map, Head(apps)), Tail(apps))

\* the comparator of v.versions.sort
VersionSortCmp(x, y) ==
  IF HasDateObject(x.date) /\ HasDateObject(y.date)
  THEN IF NewDateTime(x.date) = Null \/ NewDateTime(y.date) = Null
       THEN 0
       ELSE Sign(NewDateTime(y.date) - NewDateTime(x.date))
  ELSE IF HasDateObject(x.date) THEN -1
  ELSE IF HasDateObject(y.date) THEN 1
  ELSE semverCompare(y.version, x.version)

\* the arrays the sort of one version list can leave
SortedVersions(vs) == SortOutcomes(vs, VersionSortCmp)

\* the sequences that take their i-th element from choices[i]
RECURSIVE Product(_)
Product(choices) ==
  IF choices = <<>> THEN {<<>>}
  ELSE {<<h>> \o t : h \in Head(choices), t \in Product(Tail(choices))}

\* the arrays mergeByBundle can return for apps: the Map's values in insertion
\* order, each with its version list sorted
mergeByBundle(apps) ==
  LET map == MergeMap(<<>>, apps)
  IN Product([i \in 1..Len(map) |->
               {[map[i].val EXCEPT !.versions = vs] : vs \in SortedVersions(map[i].val.versions)}])

(***************************************************************************)
(* The configured sources and the catalog documents they serve.            *)
(***************************************************************************)
Sources == 1..NumSources

\* the entries of getSources(): a short identifier, then absolute URLs
SourceRef(s) ==
  IF s = 1 THEN <<"r">> ELSE <<"h", ":", "/", "/", "s">> \o <<Alphabet[CharCode("0") + s]>>

RepoBase == <<"https://raw.githubusercontent.com/ripestore/repos/main/">>

\* src.includes('://') ? src : `https://raw.githubusercontent.com/ripestore/repos/main/${src}.json`
ResolveUrl(src) ==
  IF Includes(src, <<":", "/", "/">>) THEN src
  ELSE RepoBase \o src \o <<".", "j", "s", "o", "n">>

\* consecutive sources share the bundles of AppsPerSource - CatalogShift apps
CatalogShift == 10

TwoDigits(n) == <<Alphabet[CharCode("0") + (n \div 10)], Alphabet[CharCode("0") + (n % 10)]>>

Ver(version, date, url) == [version |-> version, date |-> date, url |-> url]

CatalogVersions(s, b) ==
  IF b % 3 = 0 THEN <<>>
  ELSE IF b % 3 = 1 THEN <<Ver(<<"1", ".", "0">>, DateIso(b), <<"u">>)>>
  ELSE <<Ver(<<"1", ".", "0">>, IF s % 2 = 1 THEN DateJunk ELSE DateIso(b), <<"u">>),
         Ver(<<"1", ".", "1", "0">>, DateIso(b + s), <<"v">>)>>

\* the j-th app of the document of source s, as normalized
CatalogApp(s, j) ==
  LET b == (s - 1) * CatalogShift + j
  IN [bundle |-> IF j = AppsPerSource THEN (IF s % 2 = 1 THEN Undefined ELSE <<" ">>)
                 ELSE IF (b + s) % 4 = 0 THEN <<" ", "p">> \o TwoDigits(b) \o <<" ">>
                 ELSE <<"p">> \o TwoDigits(b),
      name |-> IF (b + s) % 3 = 0 THEN <<>>
               ELSE <<<<"z", "m", "a">>[((b \div 2) % 3) + 1]>> \o TwoDigits(b),
      icon |-> IF s % 2 = 1 THEN "" ELSE "icon",
      dev |-> IF b % 2 = 1 THEN "" ELSE "dev",
      desc |-> IF s = 1 THEN "desc" ELSE "",
      source |-> <<>>,
      versions |-> CatalogVersions(s, b)]

\* a parsed document: whether it is an object, and the apps it lists
CatalogDoc(s) == [isObject |-> TRUE, apps |-> [j \in 1..AppsPerSource |-> CatalogApp(s, j)]]

\* a document that parses as JSON and is no object (null, a bare string)
BadDoc == [isObject |-> FALSE, apps |-> <<>>]

\* normalizeRepo(data, url): throws when data is no object, else the apps of
\* the document, each carrying the source URL
NormalizeThrows(data) == ~data.isObject

normalizeRepo(data, url) == [i \in 1..Len(data.apps) |-> [data.apps[i] EXCEPT !.source = url]]

\* the normalized apps of source s
SourceApps(s) == normalizeRepo(CatalogDoc(s), ResolveUrl(SourceRef(s)))

(***************************************************************************)
(* search.js.  Fuse is the index: whether it was constructed, and the      *)
(* documents it has indexed.                                               *)
(***************************************************************************)
\* { ...app, ...v, _isVersion: true }
Spread(app, v) ==
  [f \in DOMAIN app \cup DOMAIN v \cup {"_isVersion"} |->
     IF f = "_isVersion" THEN TRUE ELSE IF f \in DOMAIN v THEN v[f] ELSE app[f]]

\* { ...app, _isVersion: true }
SpreadApp(app) ==
  [f \in DOMAIN app \cup {"_isVersion"} |-> IF f = "_isVersion" THEN TRUE ELSE app[f]]

\* the records pushed for one app
FlattenApp(app) ==
  IF app.versions # <<>>
  THEN [i \in 1..Len(app.versions) |-> Spread(app, app.versions[i])]
  ELSE <<SpreadApp(app)>>

RECURSIVE Flatten(_)
Flatten(apps) == IF apps = <<>> THEN <<>> ELSE FlattenApp(Head(apps)) \o Flatten(Tail(apps))

NoFuse == [made |-> FALSE, index |-> <<>>]

\* the array allApps as an element of itself: fuse.add(allApps) pushes its
\* argument, one document, onto the collection the index was constructed on,
\* which is allApps
ArrayDoc == [_array |-> TRUE]

\* addApps(apps): the new value of allApps
addApps_allApps(allApps0, fuse0, apps) ==
  IF apps = <<>> THEN allApps0
  ELSE IF ~fuse0.made THEN allApps0 \o Flatten(apps)
  ELSE Append(allApps0 \o Flatten(apps), ArrayDoc)

\* addApps(apps): the new value of fuse
addApps_fuse(allApps0, fuse0, apps) ==
  IF apps = <<>> THEN fuse0
  ELSE IF ~fuse0.made THEN [made |-> TRUE, index |-> allApps0 \o Flatten(apps)]
  ELSE [made |-> TRUE, index |-> Append(fuse0.index, ArrayDoc)]

\* initSearch(apps)
initSearch_allApps(apps) == apps

initSearch_fuse(apps) == [made |-> TRUE, index |-> apps]

\* default of searchApps' limit parameter
SearchLimit == 50

\* Fuse's search over docs: with ignoreLocation and case-insensitive matching,
\* a document whose name contains the pattern is a hit without errors (score
\* 0); patterns shorter than minMatchCharLength hit nothing.  Hits come in
\* index order.  Scores and relevance are in thousandths.
FuseHit(q, doc) ==
  /\ "name" \in DOMAIN doc
  /\ Len(q) >= 2
  /\ Includes(ToLower(doc.name), ToLower(q))

FuseSearch(q, docs) ==
  LET hits == SelectSeq(docs, LAMBDA d : FuseHit(q, d))
  IN [i \in 1..Len(hits) |-> [item |-> hits[i], score |-> 0]]

Take(seq, n) == SubSeq(seq, 1, Min(n, Len(seq)))

\* rel = 1 - score, plus the bonus of the name match
Relevance(q, r) ==
  (1000 - r.score)
  + (IF r.item.name # <<>> /\ ToLower(r.item.name) = ToLower(q) THEN 700
     ELSE IF r.item.name # <<>> /\ StartsWith(ToLower(r.item.name), ToLower(q)) THEN 400
     ELSE IF r.item.name # <<>> /\ Includes(ToLower(r.item.name), ToLower(q)) THEN 180
     ELSE 0)

RelCmp(a, b) == b.rel - a.rel

\* searchApps(q, appsToSearch, limit) on an explicit list appsToSearch
searchApps(q, appsToSearch, limit) ==
  IF Trim(OrEmpty(q)) = <<>> THEN Take(appsToSearch, limit)
  ELSE LET raw == Take(FuseSearch(Trim(q), appsToSearch), limit * 2)
           scored == [i \in 1..Len(raw) |-> [item |-> raw[i].item, rel |-> Relevance(Trim(q), raw[i])]]
           ranked == Take(StableSort(scored, RelCmp), limit)
       IN [i \in 1..Len(ranked) |-> ranked[i].item]

(***************************************************************************)
(* app.js: the catalog controller.                                         *)
(***************************************************************************)
\* const BATCH = 20
BATCH == 20

\* showSkeleton(12) in loadAll
SkeletonCount == 12

SortModes == {"name-asc", "name-desc", "version-desc", "version-asc"}

VersionModes == {"version-desc", "version-asc"}

\* the queries the search box is given
Queries == {<<" ">>, <<"a", "1">>}

\* getLatestDate(app): parseDateString(app.versions?.[0]?.date)
getLatestDate(app) ==
  IF app.versions = <<>> THEN Null ELSE parseDateString(app.versions[1].date)

byNameAsc(a, b) == localeCompare(a.name, b.name)

byNameDesc(a, b) == localeCompare(b.name, a.name)

byVerDesc(a, b) ==
  IF getLatestDate(a) # Null /\ getLatestDate(b) # Null
  THEN Sign(getLatestDate(b) - getLatestDate(a))
  ELSE IF getLatestDate(a) # Null THEN -1
  ELSE IF getLatestDate(b) # Null THEN 1
  ELSE localeCompare(a.name, b.name)

byVerAsc(a, b) ==
  IF getLatestDate(a) # Null /\ getLatestDate(b) # Null
  THEN Sign(getLatestDate(a) - getLatestDate(b))
  ELSE IF getLatestDate(a) # Null THEN 1
  ELSE IF getLatestDate(b) # Null THEN -1
  ELSE localeCompare(a.name, b.name)

sortApps(apps, mode) ==
  IF mode = "name-desc" THEN StableSort(apps, byNameDesc)
  ELSE IF mode = "version-desc" THEN StableSort(apps, byVerDesc)
  ELSE IF mode = "version-asc" THEN StableSort(apps, byVerAsc)
  ELSE StableSort(apps, byNameAsc)

\* app.date of a list item: merged apps carry no date of their own, flattened
\* version records carry their version's
ItemDate(item) == IF "date" \in DOMAIN item THEN item.date ELSE DateUndefined

\* filterAndPrepare up to the assignment of state.list: appsToProcess
AppsToProcess(st) ==
  LET found == IF Trim(st.q) # <<>>
               THEN searchApps(Trim(st.q), Flatten(st.allMerged), SearchLimit)
               ELSE st.allMerged
  IN IF st.sort \in VersionModes
     THEN SelectSeq(found, LAMBDA a : parseDateString(ItemDate(a)) # Null)
     ELSE found

\* state.list is the array state.allMerged itself when neither the search nor
\* the date filter has made a new one; sortApps then sorts both
ListIsAllMerged(st) == Trim(st.q) = <<>> /\ st.sort \notin VersionModes

\* appendBatch(): the new cursor, and the cards it appends
AppendNext(st) == Min(st.rendered + BATCH, Len(st.list))

AppendedCards(st) == SubSeq(st.list, st.rendered + 1, AppendNext(st))

appendBatch_state(st) == [st EXCEPT !.rendered = AppendNext(st)]

appendBatch_grid(st, g) == [g EXCEPT !.cards = @ \o AppendedCards(st)]

\* filterAndPrepare() without state.rendered = 0
FilterSortedKeepCursor(st) ==
  LET sorted == sortApps(AppsToProcess(st), st.sort)
  IN [st EXCEPT !.list = sorted,
                !.allMerged = IF ListIsAllMerged(st) THEN sorted ELSE @]

\* filterAndPrepare(): state.list assigned and sorted, the cursor reset, the
\* grid emptied, then appendBatch()
FilterSorted(st) ==
  LET sorted == sortApps(AppsToProcess(st), st.sort)
  IN [st EXCEPT !.list = sorted,
                !.allMerged = IF ListIsAllMerged(st) THEN sorted ELSE @,
                !.rendered = 0]

filterAndPrepare_state(st) == appendBatch_state(FilterSorted(st))

filterAndPrepare_grid(st) == appendBatch_grid(FilterSorted(st), [skeletons |-> 0, cards |-> <<>>])

\* renderAppsIncrementally(apps)
renderAppsIncrementally_state(st, apps) == [st EXCEPT !.rendered = @ + Len(apps)]

renderAppsIncrementally_grid(g, apps) == [g EXCEPT !.cards = @ \o apps]

(***************************************************************************)
(* State.                                                                  *)
(***************************************************************************)
VARIABLES
  state,        \* app.js state: allMerged, list, rendered, q, sort
  grid,         \* #grid: the skeleton placeholders, then the cards in order
  allApps,      \* search.js allApps
  fuse,         \* search.js fuse
  task,         \* loadAll: each source's task
  cache,        \* fetchRepo's cache: the results stored, by key
  timers,       \* debounce timers of the search box that have not fired
  ticking,      \* the scroll listener's flag: an animation frame is requested
  pc,           \* where loadAll is
  mergeArg,     \* the array last handed to mergeByBundle
  mergeResult,  \* the array it returned
  calls,        \* the fetchRepo calls made by the fetch specification
  requests,     \* network requests issued by those calls, by key
  callArgs,     \* the arguments of the call a function specification makes
  callResult    \* what that call returned

vars == <<state, grid, allApps, fuse, task, cache, timers, ticking, pc,
          mergeArg, mergeResult, calls, requests, callArgs, callResult>>

pageVars == <<state, grid, allApps, fuse, task, timers, ticking, pc>>

\* Map.prototype.set on the cache
CacheSet(c, k, v) == [x \in DOMAIN c \cup {k} |-> IF x = k THEN v ELSE c[x]]

EmptyMap == [x \in {} |-> <<>>]

\* the state when loadAll() waits at await Promise.allSettled(promises): the
\* cache is empty, so every task has passed the cache test and issued its fetch
InitPage ==
  /\ state = [allMerged |-> <<>>, list |-> <<>>, rendered |-> 0, q |-> <<>>, sort |-> ""]
  /\ grid = [skeletons |-> SkeletonCount, cards |-> <<>>]
  /\ allApps = <<>>
  /\ fuse = NoFuse
  /\ task = [s \in Sources |-> "inflight"]
  /\ timers = 0
  /\ ticking = FALSE
  /\ pc = "awaiting"

Init ==
  /\ InitPage
  /\ cache = EmptyMap
  /\ mergeArg = <<>>
  /\ mergeResult = <<>>
  /\ calls = <<>>
  /\ requests = EmptyMap
  /\ callArgs = <<>>
  /\ callResult = <<>>

(***************************************************************************)
(* loadAll: the task of one source, from the settling of its fetch on.     *)
(***************************************************************************)
\* !state.q || state.q.trim() === ''
NoQuery(st) == st.q = <<>> \/ Trim(st.q) = <<>>

\* state.allMerged = apps in place of state.allMerged.concat(apps)
TaskBody_state_assign(st, apps) ==
  LET st1 == [st EXCEPT !.allMerged = apps]
  IN IF NoQuery(st1) /\ apps # <<>> THEN renderAppsIncrementally_state(st1, apps) ELSE st1

\* the try block after fetchRepo has returned the apps of source s
TaskBody_state(st, apps) ==
  LET st1 == [st EXCEPT !.allMerged = @ \o apps]
  IN IF NoQuery(st1) /\ apps # <<>> THEN renderAppsIncrementally_state(st1, apps) ELSE st1

TaskBody_grid(st, g, apps) ==
  IF NoQuery(st) /\ apps # <<>> THEN renderAppsIncrementally_grid(g, apps) ELSE g

\* the fetch of source s succeeds with the source's catalog document
TaskArrive(s) ==
  /\ pc = "awaiting"
  /\ task[s] = "inflight"
  /\ cache' = CacheSet(cache, SourceRef(s),
                       [data |-> CatalogDoc(s), url |-> ResolveUrl(SourceRef(s))])
  /\ allApps' = addApps_allApps(allApps, fuse, SourceApps(s))
  /\ fuse' = addApps_fuse(allApps, fuse, SourceApps(s))
  /\ state' = TaskBody_state(state, SourceApps(s))
  /\ grid' = TaskBody_grid(state, grid, SourceApps(s))
  /\ task' = [task EXCEPT ![s] = "ok"]
  /\ UNCHANGED <<timers, ticking, pc, mergeArg, mergeResult, calls, requests, callArgs, callResult>>

\* the fetch succeeds with a document that is no object: fetchRepo caches and
\* returns it, normalizeRepo throws, the catch returns { ok: false }
TaskBadDoc(s) ==
  /\ pc = "awaiting"
  /\ task[s] = "inflight"
  /\ NormalizeThrows(BadDoc)
  /\ cache' = CacheSet(cache, SourceRef(s),
                       [data |-> BadDoc, url |-> ResolveUrl(SourceRef(s))])
  /\ task' = [task EXCEPT ![s] = "failed"]
  /\ UNCHANGED <<state, grid, allApps, fuse, timers, ticking, pc, mergeArg, mergeResult,
                 calls, requests, callArgs, callResult>>

\* fetchJSON throws (network error, status not ok, no JSON in the body):
\* fetchRepo rejects, the catch returns { ok: false }
TaskFetchFail(s) ==
  /\ pc = "awaiting"
  /\ task[s] = "inflight"
  /\ task' = [task EXCEPT ![s] = "failed"]
  /\ UNCHANGED <<state, grid, allApps, fuse, cache, timers, ticking, pc, mergeArg,
                 mergeResult, calls, requests, callArgs, callResult>>

\* the fetch of source s never settles: nothing times it out or aborts it
FetchHang(s) ==
  /\ pc = "awaiting"
  /\ task[s] = "inflight"
  /\ task' = [task EXCEPT ![s] = "hung"]
  /\ UNCHANGED <<state, grid, allApps, fuse, cache, timers, ticking, pc, mergeArg,
                 mergeResult, calls, requests, callArgs, callResult>>

\* a task's promise is settled: the async function has returned
Settled(s) == task[s] \in {"ok", "failed"}

\* a barrier that the first settled task opens (Promise.race)
AnySettled == \E s \in Sources : Settled(s)

\* await Promise.allSettled(promises)
AllSettled == \A s \in Sources : Settled(s)

\* loadAll after the barrier: mergeByBundle, initSearch, filterAndPrepare
Reconcile ==
  /\ pc = "awaiting"
  /\ AllSettled
  /\ \E merged \in mergeByBundle(state.allMerged) :
       /\ mergeArg' = state.allMerged
       /\ mergeResult' = merged
       /\ allApps' = initSearch_allApps(merged)
       /\ fuse' = initSearch_fuse(merged)
       /\ state' = filterAndPrepare_state([state EXCEPT !.allMerged = merged])
       /\ grid' = filterAndPrepare_grid([state EXCEPT !.allMerged = merged])
  /\ pc' = "done"
  /\ UNCHANGED <<task, cache, timers, ticking, calls, requests, callArgs, callResult>>

(***************************************************************************)
(* The event listeners.                                                    *)
(***************************************************************************)
\* input on #search: state.q = value; debounce(filterAndPrepare, 220)() makes a
\* debounced function of its own and calls it once, so a timer is set and none
\* is cleared
Input(q) ==
  /\ timers < MaxTimers
  /\ state' = [state EXCEPT !.q = q]
  /\ timers' = timers + 1
  /\ UNCHANGED <<grid, allApps, fuse, task, cache, ticking, pc, mergeArg, mergeResult,
                 calls, requests, callArgs, callResult>>

\* a debounce timer fires: filterAndPrepare()
TimerFire ==
  /\ timers > 0
  /\ timers' = timers - 1
  /\ state' = filterAndPrepare_state(state)
  /\ grid' = filterAndPrepare_grid(state)
  /\ UNCHANGED <<allApps, fuse, task, cache, ticking, pc, mergeArg, mergeResult,
                 calls, requests, callArgs, callResult>>

\* change on #sort: state.sort = value; filterAndPrepare()
SortChange(m) ==
  /\ state' = filterAndPrepare_state([state EXCEPT !.sort = m])
  /\ grid' = filterAndPrepare_grid([state EXCEPT !.sort = m])
  /\ UNCHANGED <<allApps, fuse, task, cache, timers, ticking, pc, mergeArg, mergeResult,
                 calls, requests, callArgs, callResult>>

\* scroll: if (ticking) return; ticking = true; requestAnimationFrame(...)
Scroll ==
  /\ ~ticking
  /\ ticking' = TRUE
  /\ UNCHANGED <<state, grid, allApps, fuse, task, cache, timers, pc, mergeArg,
                 mergeResult, calls, requests, callArgs, callResult>>

\* the animation frame callback: if (nearBottom) appendBatch(); ticking = false
Frame(nearBottom) ==
  /\ ticking
  /\ ticking' = FALSE
  /\ state' = IF nearBottom THEN appendBatch_state(state) ELSE state
  /\ grid' = IF nearBottom THEN appendBatch_grid(state, grid) ELSE grid
  /\ UNCHANGED <<allApps, fuse, task, cache, timers, pc, mergeArg, mergeResult,
                 calls, requests, callArgs, callResult>>

Next ==
  \/ \E s \in Sources : TaskArrive(s)
  \/ \E s \in Sources : TaskBadDoc(s)
  \/ \E s \in Sources : TaskFetchFail(s)
  \/ \E s \in Sources : FetchHang(s)
  \/ Reconcile
  \/ \E q \in Queries : Input(q)
  \/ TimerFire
  \/ \E m \in SortModes : SortChange(m)
  \/ Scroll
  \/ \E nb \in BOOLEAN : Frame(nb)

Spec == Init /\ [][Next]_vars

\* the outcome of the fetch of source s: none ever, an answer, or an error
FetchOutcome(s) == FetchHang(s) \/ TaskArrive(s) \/ TaskBadDoc(s) \/ TaskFetchFail(s)

\* weak fairness of Reconcile, with its enabling condition written out: the
\* continuation of loadAll runs once the promise of the barrier is resolved
FairReconcile ==
  \/ []<>~(pc = "awaiting" /\ AllSettled)
  \/ []<><<Reconcile>>_vars

\* every fetch in flight gets its outcome, and loadAll resumes once the barrier
\* is open
FairSpec ==
  /\ Spec
  /\ FairReconcile
  /\ \A s \in Sources : WF_vars(FetchOutcome(s))

(***************************************************************************)
(* The merge specification: mergeByBundle called on one array of apps.     *)
(***************************************************************************)
SeqsUpTo(S, n) == UNION {[1..k -> S] : k \in 0..n}

\* apps that differ in their bundle identifier and scalar fields
ScalarApps ==
  { [bundle |-> b, name |-> n, icon |-> o[1], dev |-> o[2], desc |-> o[3],
     source |-> <<>>, versions |-> <<>>] :
      b \in {<<"a">>, <<" ", "a", " ">>, <<"c">>, <<" ">>, Undefined},
      n \in {<<>>, <<"f">>, <<"g">>},
      o \in {<<"", "", "">>, <<"i1", "d1", "">>, <<"", "d2", "e2">>} }

\* versions that differ in the pair (version, url)
PairVersions ==
  { Ver(v, DateEmpty, u) : v \in {<<"1", ".", "0">>, <<"1", ".", "1", "0">>}, u \in {<<"u">>, <<"v">>} }

\* versions that differ in date and version string
DatedVersions ==
  { Ver(v, d, u) : v \in {<<"1", ".", "2">>, <<"1", ".", "1", "0">>},
                   d \in {DateEmpty, DateJunk, DateIso(1), DateIso(2)},
                   u \in {<<"u">>} }

AppWith(b, vs) ==
  [bundle |-> b, name |-> <<"f">>, icon |-> "", dev |-> "", desc |-> "",
   source |-> <<>>, versions |-> vs]

PairApps == { AppWith(b, vs) : b \in {<<"a">>, <<>>}, vs \in SeqsUpTo(PairVersions, MaxVersions) }

DatedApps == { AppWith(<<"a">>, vs) : vs \in SeqsUpTo(DatedVersions, MaxVersions) }

MergeInputs ==
  SeqsUpTo(ScalarApps, MaxApps) \cup SeqsUpTo(PairApps, MaxApps - 1) \cup SeqsUpTo(DatedApps, MaxApps - 1)

InitMerge ==
  /\ state = [allMerged |-> <<>>, list |-> <<>>, rendered |-> 0, q |-> <<>>, sort |-> ""]
  /\ grid = [skeletons |-> 0, cards |-> <<>>]
  /\ allApps = <<>>
  /\ fuse = NoFuse
  /\ task = [s \in Sources |-> "inflight"]
  /\ timers = 0
  /\ ticking = FALSE
  /\ cache = EmptyMap
  /\ calls = <<>>
  /\ requests = EmptyMap
  /\ callArgs = <<>>
  /\ callResult = <<>>
  /\ pc = "call"
  /\ mergeArg \in MergeInputs
  /\ mergeResult = <<>>

CallMerge ==
  /\ pc = "call"
  /\ mergeResult' \in mergeByBundle(mergeArg)
  /\ pc' = "returned"
  /\ UNCHANGED <<state, grid, allApps, fuse, task, cache, timers, ticking, mergeArg,
                 calls, requests, callArgs, callResult>>

NextMerge == CallMerge

SpecMerge == InitMerge /\ [][NextMerge]_vars

(***************************************************************************)
(* The fetch specification: callers of fetchRepo, of alt-source-kit.js or   *)
(* of repo-loader.js, whose calls overlap as the event loop allows: the     *)
(* function runs to its await, and resumes when the fetch settles.          *)
(***************************************************************************)
FetchModules == {"alt-source-kit", "repo-loader"}

FetchKeys == {SourceRef(s) : s \in Sources}

\* what the server may answer to a request: its content can change between two
\* requests, and need not be a repository
FetchDocs ==
  { [isObject |-> TRUE, apps |-> <<>>],
    [isObject |-> TRUE, apps |-> <<CatalogApp(1, 1)>>],
    BadDoc }

\* new ASRepository(data) throws when data is no object
ASRepositoryThrows(data) == ~data.isObject

NoResult == [data |-> BadDoc, url |-> <<>>]

\* cache.has(src) ? cache.get(src) : the call goes on to await fetchJSON(url)
CallFetchRepo(k) ==
  /\ pc \in FetchModules
  /\ Len(calls) < MaxCalls
  /\ IF k \in DOMAIN cache
     THEN /\ calls' = Append(calls, [key |-> k, phase |-> "returned", result |-> cache[k]])
          /\ requests' = requests
     ELSE /\ calls' = Append(calls, [key |-> k, phase |-> "awaiting", result |-> NoResult])
          /\ requests' = CacheSet(requests, k, IF k \in DOMAIN requests THEN requests[k] + 1 ELSE 1)
  /\ UNCHANGED <<pageVars, cache, mergeArg, mergeResult, callArgs, callResult>>

\* fetchJSON resolves with document d for call i: the result is built, stored
\* with cache.set and returned; alt-source-kit.js throws instead when the
\* document is no repository
FetchResolve(i, d) ==
  /\ pc \in FetchModules
  /\ i \in 1..Len(calls)
  /\ calls[i].phase = "awaiting"
  /\ IF pc = "alt-source-kit" /\ ASRepositoryThrows(d)
     THEN /\ calls' = [calls EXCEPT ![i].phase = "threw"]
          /\ cache' = cache
     ELSE LET result == [data |-> d, url |-> ResolveUrl(calls[i].key)]
          IN /\ calls' = [calls EXCEPT ![i].phase = "returned", ![i].result = result]
             /\ cache' = CacheSet(cache, calls[i].key, result)
  /\ UNCHANGED <<pageVars, requests, mergeArg, mergeResult, callArgs, callResult>>

\* fetchJSON throws for call i: fetchRepo rejects before cache.set
FetchReject(i) ==
  /\ pc \in FetchModules
  /\ i \in 1..Len(calls)
  /\ calls[i].phase = "awaiting"
  /\ calls' = [calls EXCEPT ![i].phase = "threw"]
  /\ UNCHANGED <<pageVars, cache, requests, mergeArg, mergeResult, callArgs, callResult>>

InitFetch ==
  /\ state = [allMerged |-> <<>>, list |-> <<>>, rendered |-> 0, q |-> <<>>, sort |-> ""]
  /\ grid = [skeletons |-> 0, cards |-> <<>>]
  /\ allApps = <<>>
  /\ fuse = NoFuse
  /\ task = [s \in Sources |-> "inflight"]
  /\ timers = 0
  /\ ticking = FALSE
  /\ cache = EmptyMap
  /\ calls = <<>>
  /\ requests = EmptyMap
  /\ callArgs = <<>>
  /\ callResult = <<>>
  /\ pc \in FetchModules
  /\ mergeArg = <<>>
  /\ mergeResult = <<>>

NextFetch ==
  \/ \E k \in FetchKeys : CallFetchRepo(k)
  \/ \E i \in 1..MaxCalls, d \in FetchDocs : FetchResolve(i, d)
  \/ \E i \in 1..MaxCalls : FetchReject(i)

SpecFetch == InitFetch /\ [][NextFetch]_vars

(***************************************************************************)
(* The filter specification: filterAndPrepare and sortApps called on a     *)
(* controller state whose merged set, query and sort mode are arbitrary.   *)
(***************************************************************************)
FilterNames == {<<"a", "1">>, <<"m">>, <<"Z", "a", "1">>}

\* version lists: none, a dated one, an undated one, an undated one leading a
\* dated one
FilterVersionLists ==
  { <<>>,
    <<Ver(<<"1", ".", "0">>, DateIso(1), <<"u">>)>>,
    <<Ver(<<"1", ".", "0">>, DateCompact(2), <<"u">>)>>,
    <<Ver(<<"1", ".", "0">>, DateJunk, <<"u">>)>>,
    <<Ver(<<"1", ".", "1">>, DateJunk, <<"u">>), Ver(<<"1", ".", "0">>, DateIso(2), <<"u">>)>> }

\* merged apps as the data model has them, with dates on their versions only,
\* and merged apps that carry a date field of their own beside the versions
FilterApps ==
  { [bundle |-> <<"p">>, name |-> n, icon |-> "", dev |-> "", desc |-> "",
     source |-> <<>>, versions |-> vs] : n \in FilterNames, vs \in FilterVersionLists }
  \cup
  { [bundle |-> <<"p">>, name |-> <<"m">>, icon |-> "", dev |-> "", desc |-> "",
     source |-> <<>>, versions |-> <<Ver(<<"1", ".", "0">>, DateIso(1), <<"u">>)>>,
     date |-> d] : d \in {DateIso(2), DateJunk} }

FilterQueries == {<<>>, <<" ">>, <<"a", "1">>}

\* the values of state.sort: the initial one, the options of #sort, another
FilterModes == SortModes \cup {"", "other"}

InitFilter ==
  /\ state \in [allMerged : SeqsUpTo(FilterApps, MaxItems), list : {<<>>}, rendered : {0},
                q : FilterQueries, sort : FilterModes]
  /\ grid = [skeletons |-> 0, cards |-> <<>>]
  /\ allApps = <<>>
  /\ fuse = NoFuse
  /\ task = [s \in Sources |-> "inflight"]
  /\ timers = 0
  /\ ticking = FALSE
  /\ cache = EmptyMap
  /\ calls = <<>>
  /\ requests = EmptyMap
  /\ callArgs = <<>>
  /\ callResult = <<>>
  /\ pc = "call"
  /\ mergeArg = <<>>
  /\ mergeResult = <<>>

\* filterAndPrepare() on the state
CallFilterAndPrepare ==
  /\ pc = "call"
  /\ callArgs' = state
  /\ state' = filterAndPrepare_state(state)
  /\ grid' = filterAndPrepare_grid(state)
  /\ pc' = "filtered"
  /\ UNCHANGED <<allApps, fuse, task, cache, timers, ticking, mergeArg, mergeResult,
                 calls, requests, callResult>>

\* sortApps(state.allMerged, state.sort)
CallSortApps ==
  /\ pc = "call"
  /\ callArgs' = state
  /\ callResult' = sortApps(state.allMerged, state.sort)
  /\ pc' = "sorted"
  /\ UNCHANGED <<state, grid, allApps, fuse, task, cache, timers, ticking, mergeArg,
                 mergeResult, calls, requests>>

NextFilter == CallFilterAndPrepare \/ CallSortApps

SpecFilter == InitFilter /\ [][NextFilter]_vars

(***************************************************************************)
(* The version specification: semverCompare called on two version strings. *)
(***************************************************************************)
SemverChars == {"0", "1", "2", ".", "-", "a", "Z"}

SemverStrings ==
  SeqsUpTo(SemverChars, MaxVersionLen)
  \cup { <<"1", ".", "2", ".", "0">>, <<"1", ".", "1", "0", ".", "0">>,
         <<"1", ".", "0", ".", "0">>, <<"1", "+", "0">>, <<" ", "1">>, <<"1", " ", "0">> }

InitSemver ==
  /\ state = [allMerged |-> <<>>, list |-> <<>>, rendered |-> 0, q |-> <<>>, sort |-> ""]
  /\ grid = [skeletons |-> 0, cards |-> <<>>]
  /\ allApps = <<>>
  /\ fuse = NoFuse
  /\ task = [s \in Sources |-> "inflight"]
  /\ timers = 0
  /\ ticking = FALSE
  /\ cache = EmptyMap
  /\ calls = <<>>
  /\ requests = EmptyMap
  /\ callArgs \in SemverStrings \X SemverStrings
  /\ callResult = 0
  /\ pc = "call"
  /\ mergeArg = <<>>
  /\ mergeResult = <<>>

\* semverCompare(a, b)
CallSemverCompare ==
  /\ pc = "call"
  /\ callResult' = semverCompare(callArgs[1], callArgs[2])
  /\ pc' = "compared"
  /\ UNCHANGED <<state, grid, allApps, fuse, task, cache, timers, ticking, mergeArg,
                 mergeResult, calls, requests, callArgs>>

NextSemver == CallSemverCompare

SpecSemver == InitSemver /\ [][NextSemver]_vars

(***************************************************************************)
(* The search specification: searchApps called after initSearch, with an   *)
(* explicit candidate list or without one.                                 *)
(***************************************************************************)
\* searchApps(q, undefined, limit): targetApps is allApps and the index is fuse
searchApps_default(q, limit, allApps0, fuse0) ==
  IF Trim(OrEmpty(q)) = <<>> THEN Take(allApps0, limit)
  ELSE LET raw == Take(FuseSearch(Trim(q), fuse0.index), limit * 2)
           scored == [i \in 1..Len(raw) |->
                        [item |-> raw[i].item, rel |-> Relevance(Trim(q), raw[i])]]
           ranked == Take(StableSort(scored, RelCmp), limit)
       IN [i \in 1..Len(ranked) |-> ranked[i].item]

\* fuse = new Fuse(targetApps, fuseOpts) in place of the local currentFuse
searchApps_fuse_rebuilt(q, target, fuse0) ==
  IF Trim(OrEmpty(q)) = <<>> THEN fuse0 ELSE [made |-> TRUE, index |-> target]

\* the module's fuse after searchApps: the index over another list is the
\* local currentFuse
searchApps_fuse(q, target, fuse0) == fuse0

SearchNames == {<<"a", "1">>, <<"A", "1">>, <<"a", "1", "z">>, <<"z", "a", "1">>, <<"m">>}

SearchDocs == {[name |-> n, bundle |-> <<"p">>, _isVersion |-> TRUE] : n \in SearchNames}

\* q: empty, white space, null or undefined, a name, a name in white space
SearchQueries == {<<>>, <<" ">>, Undefined, <<"a", "1">>, <<" ", "A", "1">>}

SearchLimits == {1, 2, SearchLimit}

InitSearch ==
  /\ state = [allMerged |-> <<>>, list |-> <<>>, rendered |-> 0, q |-> <<>>, sort |-> ""]
  /\ grid = [skeletons |-> 0, cards |-> <<>>]
  /\ allApps \in SeqsUpTo(SearchDocs, 1)
  /\ fuse = initSearch_fuse(allApps)
  /\ task = [s \in Sources |-> "inflight"]
  /\ timers = 0
  /\ ticking = FALSE
  /\ cache = EmptyMap
  /\ calls = <<>>
  /\ requests = EmptyMap
  /\ callArgs \in [q : SearchQueries, given : BOOLEAN,
                   apps : SeqsUpTo(SearchDocs, MaxDocs), limit : SearchLimits]
  /\ ~callArgs.given => callArgs.apps = <<>>
  /\ callResult = <<>>
  /\ pc = "call"
  /\ mergeArg = <<>>
  /\ mergeResult = <<>>

\* searchApps(q, appsToSearch, limit), and searchApps(q, undefined, limit)
\* when no list is given
CallSearchApps ==
  /\ pc = "call"
  /\ callResult' = IF ~callArgs.given
                   THEN searchApps_default(callArgs.q, callArgs.limit, allApps, fuse)
                   ELSE searchApps(callArgs.q, callArgs.apps, callArgs.limit)
  /\ fuse' = searchApps_fuse(callArgs.q,
                             IF ~callArgs.given THEN allApps ELSE callArgs.apps, fuse)
  /\ pc' = "searched"
  /\ UNCHANGED <<state, grid, allApps, task, cache, timers, ticking, mergeArg,
                 mergeResult, calls, requests, callArgs>>

NextSearch == CallSearchApps

SpecSearch == InitSearch /\ [][NextSearch]_vars

(***************************************************************************)
(* alt-source-kit.js: the constructors ASRepository, App and Version, on   *)
(* parsed JSON.  A JSON value is a record with its type; an object has the *)
(* fields the model reads, an absent one being undefined.  Of the fields a *)
(* constructor copies, the model keeps one for each kind of default.  A    *)
(* constructor's outcome is [threw, error, value].                         *)
(***************************************************************************)
JNull == [type |-> "null"]
JUndefined == [type |-> "undefined"]
JString(str) == [type |-> "string", s |-> str]
JNumber(num) == [type |-> "number", n |-> num]
JFalse == [type |-> "boolean", b |-> FALSE]
JObject(f) == [type |-> "object", fields |-> f]
JArray(seq) == [type |-> "array", items |-> seq]

\* ToBoolean
Truthy(v) ==
  /\ v.type \notin {"null", "undefined"}
  /\ v.type = "string" => v.s # ""
  /\ v.type = "number" => v.n # 0
  /\ v.type = "boolean" => v.b

\* !(!data || typeof data !== 'object')
IsObjectData(data) == Truthy(data) /\ data.type \in {"object", "array"}

\* data.k
Get(data, k) ==
  IF data.type = "object" /\ k \in DOMAIN data.fields THEN data.fields[k] ELSE JUndefined

\* data.k || d
GetOr(data, k, d) == IF Truthy(Get(data, k)) THEN Get(data, k) ELSE d

Thrown(msg) == [threw |-> TRUE, error |-> msg, value |-> <<>>]

Returned(v) == [threw |-> FALSE, error |-> "", value |-> v]

\* new Version(data)
NewVersion(data) ==
  IF ~IsObjectData(data) THEN Thrown("Invalid version data")
  ELSE Returned([version |-> GetOr(data, "version", JString("")),
                 date |-> GetOr(data, "date", JString("")),
                 size |-> GetOr(data, "size", JNumber(0))])

\* (data.versions || []).map(version => new Version(version))
MapVersions(data) ==
  LET vs == Get(data, "versions")
  IN IF ~Truthy(vs) THEN Returned(<<>>)
     ELSE IF vs.type # "array" THEN Thrown("TypeError: map is not a function")
     ELSE IF \E i \in 1..Len(vs.items) : NewVersion(vs.items[i]).threw
     THEN Thrown("Invalid version data")
     ELSE Returned([i \in 1..Len(vs.items) |-> NewVersion(vs.items[i]).value])

\* new App(data)
NewApp(data) ==
  IF ~IsObjectData(data) THEN Thrown("Invalid app data")
  ELSE IF MapVersions(data).threw THEN MapVersions(data)
  ELSE Returned([bundleIdentifier |-> GetOr(data, "bundleIdentifier", JString("")),
                 name |-> GetOr(data, "name", JString("")),
                 versions |-> MapVersions(data).value,
                 beta |-> GetOr(data, "beta", JFalse)])

\* (data.apps || []).map(app => new App(app))
MapApps(data) ==
  LET as == Get(data, "apps")
  IN IF ~Truthy(as) THEN Returned(<<>>)
     ELSE IF as.type # "array" THEN Thrown("TypeError: map is not a function")
     ELSE IF \E i \in 1..Len(as.items) : NewApp(as.items[i]).threw
     THEN NewApp(as.items[CHOOSE i \in 1..Len(as.items) :
                            /\ NewApp(as.items[i]).threw
                            /\ \A j \in 1..(i - 1) : ~NewApp(as.items[j]).threw])
     ELSE Returned([i \in 1..Len(as.items) |-> NewApp(as.items[i]).value])

\* new ASRepository(data)
NewASRepository(data) ==
  IF ~IsObjectData(data) THEN Thrown("Invalid repository data")
  ELSE IF MapApps(data).threw THEN MapApps(data)
  ELSE Returned([identifier |-> GetOr(data, "identifier", JString("")),
                 apps |-> MapApps(data).value])

(***************************************************************************)
(* The document specification: new ASRepository(data) on a parsed          *)
(* document.                                                               *)
(***************************************************************************)
\* what JSON.parse can put where a version is expected
VersionValues ==
  { JNull,
    JObject([version |-> JUndefined, date |-> JUndefined, size |-> JUndefined]),
    JObject([version |-> JString("1.0"), date |-> JUndefined, size |-> JNumber(0)]),
    JObject([version |-> JString(""), date |-> JString("2024"), size |-> JNumber(7)]) }

VersionsValues ==
  {JUndefined, JString("x")} \cup {JArray(vs) : vs \in SeqsUpTo(VersionValues, MaxDocVersions)}

AppValues ==
  {JNull, JString("x")}
  \cup { JObject([bundleIdentifier |-> JUndefined, name |-> n, versions |-> vs, beta |-> JUndefined]) :
           n \in {JUndefined, JString("n")}, vs \in VersionsValues }

AppsValues ==
  {JUndefined, JNull, JString("x"), JObject([length |-> JNumber(0)])}
  \cup {JArray(as) : as \in SeqsUpTo(AppValues, MaxDocApps)}

\* the documents: the values that are no object, arrays, objects
Documents ==
  {JNull, JUndefined, JString("x"), JString(""), JNumber(1), JNumber(0), JArray(<<>>)}
  \cup { JObject([identifier |-> i, apps |-> as]) :
           i \in {JUndefined, JString("id")}, as \in AppsValues }

InitDocument ==
  /\ state = [allMerged |-> <<>>, list |-> <<>>, rendered |-> 0, q |-> <<>>, sort |-> ""]
  /\ grid = [skeletons |-> 0, cards |-> <<>>]
  /\ allApps = <<>>
  /\ fuse = NoFuse
  /\ task = [s \in Sources |-> "inflight"]
  /\ timers = 0
  /\ ticking = FALSE
  /\ cache = EmptyMap
  /\ calls = <<>>
  /\ requests = EmptyMap
  /\ callArgs \in Documents
  /\ callResult = <<>>
  /\ pc = "call"
  /\ mergeArg = <<>>
  /\ mergeResult = <<>>

\* new ASRepository(data)
CallNewASRepository ==
  /\ pc = "call"
  /\ callResult' = NewASRepository(callArgs)
  /\ pc' = "constructed"
  /\ UNCHANGED <<state, grid, allApps, fuse, task, cache, timers, ticking, mergeArg,
                 mergeResult, calls, requests, callArgs>>

NextDocument == CallNewASRepository

SpecDocument == InitDocument /\ [][NextDocument]_vars

(***************************************************************************)
(* Properties of mergeByBundle, stated on its argument and its result.     *)
(***************************************************************************)
\* the bundle identifier of an app with the white space around it dropped;
\* empty when the identifier is missing
TrimmedBundle(a) == IF a.bundle = Undefined THEN <<>> ELSE TrimEnd(TrimStart(a.bundle))

\* the apps of the input that carry the bundle identifier b, in input order
GroupOf(apps, b) == SelectSeq(apps, LAMBDA a : TrimmedBundle(a) = b)

\* the versions of a group's apps, in input order
RECURSIVE GroupVersions(_)
GroupVersions(g) == IF g = <<>> THEN <<>> ELSE Head(g).versions \o GroupVersions(Tail(g))

Pair(v) == <<v.version, v.url>>

\* the first version of vs with the pair of v
FirstWithPair(vs, v) == vs[CHOOSE i \in 1..Len(vs) : Pair(vs[i]) = Pair(v) /\ \A j \in 1..(i - 1) : Pair(vs[j]) # Pair(v)]

\* C3: in every app of mergeByBundle's result no two versions have the same
\* (version, url) pair, and the version kept for a pair is the first of the
\* group's input versions with that pair
C3_VersionsDeduplicated ==
  pc = "returned" =>
    \A k \in 1..Len(mergeResult) :
      LET vs == mergeResult[k].versions
      IN /\ \A i, j \in 1..Len(vs) : i # j => Pair(vs[i]) # Pair(vs[j])
         /\ TrimmedBundle(mergeResult[k]) # <<>> =>
              \A i \in 1..Len(vs) :
                vs[i] = FirstWithPair(GroupVersions(GroupOf(mergeArg, TrimmedBundle(mergeResult[k]))), vs[i])

\* the first non-empty value of a sequence of values, empty being e
FirstSet(vals, e) ==
  IF \A i \in 1..Len(vals) : vals[i] = e THEN e
  ELSE vals[CHOOSE i \in 1..Len(vals) : vals[i] # e /\ \A j \in 1..(i - 1) : vals[j] = e]

\* C4: each scalar field of a merged app is the first non-empty value of the
\* field among the apps of its bundle identifier, in input order
C4_FirstNonEmptyWins ==
  pc = "returned" =>
    \A k \in 1..Len(mergeResult) :
      TrimmedBundle(mergeResult[k]) # <<>> =>
        LET g == GroupOf(mergeArg, TrimmedBundle(mergeResult[k]))
        IN /\ mergeResult[k].name = FirstSet([i \in 1..Len(g) |-> g[i].name], <<>>)
           /\ mergeResult[k].icon = FirstSet([i \in 1..Len(g) |-> g[i].icon], "")
           /\ mergeResult[k].dev = FirstSet([i \in 1..Len(g) |-> g[i].dev], "")
           /\ mergeResult[k].desc = FirstSet([i \in 1..Len(g) |-> g[i].desc], "")

\* a group of three apps whose first name is empty and whose second and third
\* names differ: the merged name is the second's
C4_Witness ==
  /\ pc = "returned"
  /\ Len(mergeArg) = 3
  /\ Len(mergeResult) = 1
  /\ mergeArg[1].name = <<>>
  /\ mergeArg[2].name # <<>>
  /\ mergeArg[3].name # <<>>
  /\ mergeArg[3].name # mergeArg[2].name
  /\ mergeResult[1].name = mergeArg[2].name
  /\ mergeArg[1].dev # ""
  /\ mergeArg[2].dev # mergeArg[1].dev
  /\ mergeResult[1].dev = mergeArg[1].dev

\* the input positions that open a group: an app without bundle identifier, or
\* the first app with its identifier
GroupStarts(apps) ==
  {i \in 1..Len(apps) :
     \/ TrimmedBundle(apps[i]) = <<>>
     \/ \A j \in 1..(i - 1) : TrimmedBundle(apps[j]) # TrimmedBundle(apps[i])}

KthStart(apps, k) ==
  CHOOSE i \in GroupStarts(apps) : Cardinality({j \in GroupStarts(apps) : j < i}) = k - 1

SameScalars(a, b) ==
  /\ a.bundle = b.bundle /\ a.name = b.name /\ a.icon = b.icon
  /\ a.dev = b.dev /\ a.desc = b.desc /\ a.source = b.source

\* C5: the result has one entry per distinct trimmed non-empty bundle
\* identifier and one per app without identifier, in the order in which the
\* groups are first seen; an app without identifier is passed through
C5_OneEntryPerGroup ==
  pc = "returned" =>
    /\ Len(mergeResult) =
         Cardinality({TrimmedBundle(mergeArg[i]) : i \in 1..Len(mergeArg)} \ {<<>>})
         + Cardinality({i \in 1..Len(mergeArg) : TrimmedBundle(mergeArg[i]) = <<>>})
    /\ Len(mergeResult) = Cardinality(GroupStarts(mergeArg))
    /\ \A k \in 1..Len(mergeResult) :
         LET a == mergeArg[KthStart(mergeArg, k)]
         IN /\ mergeResult[k].bundle = a.bundle
            /\ TrimmedBundle(a) = <<>> =>
                 /\ SameScalars(mergeResult[k], a)
                 /\ mergeResult[k].versions \in Perms(a.versions)

\* an app without identifier between two apps whose identifiers differ only in
\* white space
C5_Witness ==
  /\ pc = "returned"
  /\ Len(mergeArg) = 3
  /\ Len(mergeResult) = 2
  /\ mergeArg[1].bundle = <<" ", "a", " ">>
  /\ mergeArg[2].bundle = Undefined
  /\ mergeArg[3].bundle = <<"a">>
  /\ mergeResult[1].bundle = <<" ", "a", " ">>
  /\ mergeResult[2].bundle = Undefined

\* whether the date of a version parses
Parses(v) == parseDateString(v.date) # Null

\* C6: every version list of the result is in descending recency: parseable
\* dates before unparseable ones, parseable dates newest first, unparseable
\* ones by descending version string
C6_VersionsByRecency ==
  pc = "returned" =>
    \A k \in 1..Len(mergeResult) :
      LET vs == mergeResult[k].versions
      IN \A i, j \in 1..Len(vs) :
           i < j =>
             /\ ~(~Parses(vs[i]) /\ Parses(vs[j]))
             /\ (Parses(vs[i]) /\ Parses(vs[j])) =>
                  parseDateString(vs[i].date) >= parseDateString(vs[j].date)
             /\ (~Parses(vs[i]) /\ ~Parses(vs[j])) =>
                  semverCompare(vs[i].version, vs[j].version) >= 0

(***************************************************************************)
(* Properties of loadAll and the event listeners.                          *)
(***************************************************************************)
\* the sources whose task returned { ok: true }
Succeeded == {s \in Sources : task[s] = "ok"}

Occurrences(seq, x) == Cardinality({i \in 1..Len(seq) : seq[i] = x})

\* C1: mergeByBundle is called only after every task has settled, and on an
\* array that holds the apps of every source that succeeded, each once, and
\* nothing else
C1_MergeSeesAllSettled ==
  pc = "done" =>
    /\ \A s \in Sources : task[s] \in {"ok", "failed"}
    /\ \A s \in Succeeded : \A j \in 1..Len(SourceApps(s)) :
         Occurrences(mergeArg, SourceApps(s)[j]) = 1
    /\ \A i \in 1..Len(mergeArg) :
         \E s \in Succeeded : \E j \in 1..Len(SourceApps(s)) : mergeArg[i] = SourceApps(s)[j]

\* every source succeeded, the last configured one first, and the user has
\* typed a query and chosen a sort mode on the way
C1_Witness ==
  /\ pc = "done"
  /\ Succeeded = Sources
  /\ mergeArg # <<>>
  /\ mergeArg[1].source = ResolveUrl(SourceRef(NumSources))
  /\ state.q = <<"a", "1">>
  /\ state.sort = "version-desc"

\* the version pairs of the apps of the succeeded sources with identifier b
PairsOfSucceeded(b) ==
  {Pair(SourceApps(s)[j].versions[i]) :
     <<s, j, i>> \in {t \in Succeeded \X (1..AppsPerSource) \X (1..2) :
                        /\ TrimmedBundle(SourceApps(t[1])[t[2]]) = b
                        /\ t[3] <= Len(SourceApps(t[1])[t[2]].versions)}}

\* the merged set is the merge of the apps of the succeeded sources: its
\* bundle identifiers are theirs, each merged app has the versions they list
\* for it, apps without identifier are kept one by one, and state.allMerged
\* holds the merged apps from then on
MergedFromSucceeded ==
  /\ pc \in {"awaiting", "done"}
  /\ pc = "done" =>
       /\ {TrimmedBundle(mergeResult[k]) : k \in 1..Len(mergeResult)} \ {<<>>}
            = {TrimmedBundle(SourceApps(s)[j]) : s \in Succeeded, j \in 1..AppsPerSource} \ {<<>>}
       /\ Cardinality({k \in 1..Len(mergeResult) : TrimmedBundle(mergeResult[k]) = <<>>})
            = Cardinality({t \in Succeeded \X (1..AppsPerSource) :
                             TrimmedBundle(SourceApps(t[1])[t[2]]) = <<>>})
       /\ \A k \in 1..Len(mergeResult) :
            TrimmedBundle(mergeResult[k]) # <<>> =>
              {Pair(mergeResult[k].versions[i]) : i \in 1..Len(mergeResult[k].versions)}
                = PairsOfSucceeded(TrimmedBundle(mergeResult[k]))
       /\ {state.allMerged[i] : i \in 1..Len(state.allMerged)}
            = {mergeResult[k] : k \in 1..Len(mergeResult)}
       /\ Len(state.allMerged) = Len(mergeResult)

\* C2: whichever sources fail, loadAll does not reject and gets to the merge
\* once every task has settled, and the merged set is the merge of the apps of
\* the sources that succeeded
C2_FailedSourcesContributeNothing ==
  /\ []MergedFromSucceeded
  /\ (\A s \in Sources : task[s] \in {"ok", "failed"}) ~> (pc = "done")

\* one source failed, another succeeded, and the merge holds the latter's apps
C2_Witness ==
  /\ pc = "done"
  /\ \E s \in Sources : task[s] = "failed"
  /\ Succeeded # {}
  /\ Len(mergeResult) = AppsPerSource

\* the date the claim gives an item: a search record's own, a merged app's
\* leading version's
LeadingDate(item) ==
  IF "_isVersion" \in DOMAIN item THEN parseDateString(ItemDate(item)) ELSE getLatestDate(item)

\* the working set of filterAndPrepare: the merged apps, or the ranked search
\* records when a query is active
WorkingSet(st) ==
  IF Trim(st.q) # <<>> THEN searchApps(Trim(st.q), Flatten(st.allMerged), SearchLimit)
  ELSE st.allMerged

\* C11: in a version-based sort mode the list made by filterAndPrepare holds
\* no item whose date does not parse and every item of the working set whose
\* date parses
C11_VersionModeKeepsDated ==
  (pc = "filtered" /\ callArgs.sort \in VersionModes) =>
    /\ \A i \in 1..Len(state.list) : LeadingDate(state.list[i]) # Null
    /\ \A i \in 1..Len(WorkingSet(callArgs)) :
         LeadingDate(WorkingSet(callArgs)[i]) # Null =>
           \E j \in 1..Len(state.list) : state.list[j] = WorkingSet(callArgs)[i]

\* C12: sortApps in a version-based mode orders by the date of the leading
\* version, newest first (version-desc) or oldest first (version-asc), undated
\* items last (version-desc) or first (version-asc), and items the date does
\* not separate by name; with an empty or unknown mode, by name ascending
C12_SortByLeadingDateThenName ==
  pc = "sorted" =>
    \A i, j \in 1..Len(callResult) :
      i < j =>
        LET a == callResult[i]
            b == callResult[j]
            da == getLatestDate(a)
            db == getLatestDate(b)
        IN IF callArgs.sort = "version-desc"
           THEN /\ (da # Null /\ db # Null) => da >= db
                /\ ~(da = Null /\ db # Null)
                /\ da = db => localeCompare(a.name, b.name) <= 0
           ELSE IF callArgs.sort = "version-asc"
           THEN /\ (da # Null /\ db # Null) => da <= db
                /\ ~(da # Null /\ db = Null)
                /\ da = db => localeCompare(a.name, b.name) <= 0
           ELSE IF callArgs.sort \in {"", "other", "name-asc"}
           THEN localeCompare(a.name, b.name) <= 0
           ELSE TRUE

\* C13: semverCompare(a, b) is -1, 0 or 1 and the opposite of
\* semverCompare(b, a), and semverCompare(a, a) is 0
C13_SemverAntisymmetric ==
  pc = "compared" =>
    /\ callResult \in {-1, 0, 1}
    /\ callResult = -semverCompare(callArgs[2], callArgs[1])
    /\ semverCompare(callArgs[1], callArgs[1]) = 0

\* a number segment was compared with a text segment
C13_Witness ==
  /\ pc = "compared"
  /\ callArgs = << <<"1", ".", "a">>, <<"1", ".", "2">> >>
  /\ callResult = -1

\* the segments of a and b differ at position i, or one of them has none there
SegDiffers(A, B, i) == i > Len(A) \/ i > Len(B) \/ A[i] # B[i]

\* the order of two segment lists by their first difference at position k
ByFirstDifference(A, B, k) ==
  IF k > Len(A) THEN -1
  ELSE IF k > Len(B) THEN 1
  ELSE IF A[k].num /\ B[k].num THEN (IF A[k].n < B[k].n THEN -1 ELSE 1)
  ELSE IF ~A[k].num /\ ~B[k].num THEN (IF StrLess(A[k].t, B[k].t) THEN -1 ELSE 1)
  ELSE IF A[k].num THEN 1 ELSE -1

\* C14: semverCompare(a, b) is decided by the first position where the segment
\* lists differ (a missing segment is lowest, numbers compare numerically,
\* texts as strings, a number is above a text), and is 0 when none differs;
\* 1.2.0 is below 1.10.0 and 1.0 is below 1.0.0
C14_SemverFirstDifference ==
  /\ semverCompare(<<"1", ".", "2", ".", "0">>, <<"1", ".", "1", "0", ".", "0">>) = -1
  /\ semverCompare(<<"1", ".", "0">>, <<"1", ".", "0", ".", "0">>) = -1
  /\ pc = "compared" =>
       LET A == seg(callArgs[1])
           B == seg(callArgs[2])
           n == IF Len(A) >= Len(B) THEN Len(A) ELSE Len(B)
           D == {i \in 1..n : SegDiffers(A, B, i)}
       IN IF D = {} THEN callResult = 0
          ELSE callResult = ByFirstDifference(A, B, CHOOSE k \in D : \A i \in D : k <= i)

\* 1.2.0 was compared with 1.10.0
C14_Witness ==
  /\ pc = "compared"
  /\ callArgs = << <<"1", ".", "2", ".", "0">>, <<"1", ".", "1", "0", ".", "0">> >>
  /\ callResult = -1

\* the candidates of the call: the list given, or allApps
Candidates == IF ~callArgs.given THEN allApps ELSE callArgs.apps

\* the relevance searchApps gives a record that the index scored 0
RelOf(item) == Relevance(Trim(callArgs.q), [item |-> item, score |-> 0])

RelDesc(a, b) == b - a

C16_EmptyQueryIsNoQuery ==
  /\ (pc = "searched" /\ Trim(OrEmpty(callArgs.q)) = <<>>) =>
       callResult = SubSeq(Candidates, 1, Min(callArgs.limit, Len(Candidates)))
  /\ pc = "searched" => fuse = initSearch_fuse(allApps)

\* an undefined query over more candidates than the limit
C16_Witness ==
  /\ pc = "searched"
  /\ callArgs.q = Undefined
  /\ callArgs.given
  /\ Len(callArgs.apps) > callArgs.limit
  /\ Len(callResult) = callArgs.limit

\* C17: the construction of a repository from a document throws, with an
\* 'Invalid ...' error, exactly when the document is no object; from an
\* object it returns, absent fields have their defaults, and a document
\* without apps gives an empty app list
C17_ThrowsOnlyOnNonObject ==
  pc = "constructed" =>
    /\ callResult.threw <=> callArgs.type \notin {"object", "array"}
    /\ callResult.threw => callResult.error = "Invalid repository data"
    /\ (~callResult.threw /\ ~Truthy(Get(callArgs, "identifier"))) =>
         callResult.value.identifier = JString("")
    /\ (~callResult.threw /\ ~Truthy(Get(callArgs, "apps"))) => callResult.value.apps = <<>>

\* a step that runs filterAndPrepare: a debounce timer firing, a sort change,
\* loadAll past the barrier
FilterRun == TimerFire \/ (\E m \in SortModes : SortChange(m)) \/ Reconcile

\* the non-empty trimmed bundle identifiers of the cards are all different
OneCardPerBundle(cards) ==
  \A i, j \in 1..Len(cards) :
    (i # j /\ TrimmedBundle(cards[i]) # <<>>) => TrimmedBundle(cards[i]) # TrimmedBundle(cards[j])

\* every run of filterAndPrepare leaves in the grid exactly the first
\* min(BATCH, |list|) items of the new list, and the cursor at their number
RedrawnFromEmpty ==
  FilterRun =>
    /\ grid'.skeletons = 0
    /\ grid'.cards = SubSeq(state'.list, 1, Min(BATCH, Len(state'.list)))
    /\ state'.rendered = Len(grid'.cards)

\* C18 as stated: every run of filterAndPrepare redraws the grid from empty,
\* and when loadAll completes every card is a merged app, one card for a
\* bundle identifier
C18_RedrawnToMergedApps ==
  [][/\ RedrawnFromEmpty
     /\ Reconcile =>
          /\ \A i \in 1..Len(grid'.cards) :
               \E k \in 1..Len(mergeResult') : grid'.cards[i] = mergeResult'[k]
          /\ OneCardPerBundle(grid'.cards)]_vars

\* C18 amended: every run of filterAndPrepare redraws the grid from empty;
\* when loadAll completes with no query active every card is a merged app, one
\* card for a bundle identifier, and with a query active every card is the
\* search record of a version of a merged app
C18_RedrawnFromMergedSet ==
  [][/\ RedrawnFromEmpty
     /\ Reconcile =>
          IF NoQuery(state)
          THEN /\ \A i \in 1..Len(grid'.cards) :
                    \E k \in 1..Len(mergeResult') : grid'.cards[i] = mergeResult'[k]
               /\ OneCardPerBundle(grid'.cards)
          ELSE \A i \in 1..Len(grid'.cards) :
                 \E k \in 1..Len(Flatten(mergeResult')) :
                   grid'.cards[i] = Flatten(mergeResult')[k]]_vars

\* loadAll has completed with a query active, cards rendered incrementally
\* before the query was typed are gone, and two cards are of one bundle
C18_Witness ==
  /\ pc = "done"
  /\ ~NoQuery(state)
  /\ Succeeded # {}
  /\ grid.cards # <<>>
  /\ grid.cards = SubSeq(state.list, 1, Min(BATCH, Len(state.list)))
  /\ ~OneCardPerBundle(grid.cards)

\* C19: in every reachable state the cursor is within the list and the cards
\* of the grid are the items of the list before the cursor, in order
C19_CursorMatchesGrid ==
  /\ 0 <= state.rendered
  /\ state.rendered <= Len(state.list)
  /\ grid.cards = SubSeq(state.list, 1, state.rendered)

\* C7: the animation frame callback of the scroll listener, when it calls
\* appendBatch, never lowers state.rendered and appends to the grid exactly
\* the list items from the old cursor to the new one
C7_CursorNeverMovesBack ==
  [][(ticking /\ ~ticking') =>
       /\ state'.rendered >= state.rendered
       /\ grid'.cards = grid.cards \o SubSeq(state.list, state.rendered + 1, state'.rendered)]_vars

\* C8: once a key is in the cache its entry is never replaced or removed; a
\* call made while the key is cached returns the cached result and issues no
\* request; a call that throws leaves the cache as it was
C8_CacheEntryStable ==
  [][/\ \A k \in DOMAIN cache : k \in DOMAIN cache' /\ cache'[k] = cache[k]
     /\ \A k \in DOMAIN cache :
          (Len(calls') = Len(calls) + 1 /\ calls'[Len(calls')].key = k) =>
            /\ calls'[Len(calls')].phase = "returned"
            /\ calls'[Len(calls')].result = cache[k]
            /\ requests' = requests
     /\ \A i \in 1..Len(calls) :
          (calls[i].phase = "awaiting" /\ calls'[i].phase = "threw") => cache' = cache]_vars

\* C9: when the fetch of one source hangs forever and the fetch of every
\* other source has settled, loadAll gets past the barrier to the final merge
\* and redraw
C9_HungSourceStallsOnlyItself ==
  \A s \in Sources :
    (/\ task[s] = "hung"
     /\ \A t \in Sources \ {s} : task[t] \in {"ok", "failed"}) ~> (pc = "done")

\* C10: when the task of a source gets its apps, all their flattened records
\* are in the search index afterwards, and the apps are appended to the grid
\* exactly when the query is empty or white space at that moment
C10_ArrivalIndexedAndRendered ==
  [][\A s \in Sources :
       (task[s] = "inflight" /\ task'[s] = "ok") =>
         /\ \A i \in 1..Len(Flatten(SourceApps(s))) :
              \E n \in 1..Len(fuse'.index) : fuse'.index[n] = Flatten(SourceApps(s))[i]
         /\ IF state.q = <<>> \/ TrimEnd(TrimStart(state.q)) = <<>>
            THEN grid'.cards = grid.cards \o SourceApps(s)
            ELSE grid'.cards = grid.cards]_vars

====
